---- MODULE Spec2Model ----
(***************************************************************************)
(* Model of the pyralph iteration-and-rotation engine.                     *)
(*                                                                         *)
(* Spec       : the `run` command and the driver loop run_ralph_loop       *)
(*              (src/ralph/cli.py, src/ralph/loop.py), with the provider   *)
(*              ring (src/ralph/providers/rotation.py) and the task file   *)
(*              check (src/ralph/task.py).  One agent run is one step of   *)
(*              the driver: what the run returns (or that it raises) and   *)
(*              what the agent did to the workspace are drawn with \E.     *)
(* CliSpec    : the `run` command up to the call of run_ralph_loop, over   *)
(*              every combination of --branch and --pr.                    *)
(* RunnerSpec : one call of run_single_iteration or                        *)
(*              run_verification_iteration, step by step: the spawn, the   *)
(*              blocking readline of parse_stream, the signals it yields,  *)
(*              the timeout check of the for-loop body, the reaping.       *)
(* StreamSpec : the same call with the generator parse_stream opened up:   *)
(*              the events it reads, process_line, the token tracker, the  *)
(*              threshold checks, and the points where it is suspended.    *)
(* TrackerSpec: one TokenTracker (src/ralph/tokens.py) under any sequence  *)
(*              of add_* and should_warn calls.                            *)
(* FairSpec   : Spec with every enabled step of the driver taken.          *)
(* GutterSpec : one GutterDetector (src/ralph/gutter.py) under any         *)
(*              sequence of track_failure and track_write calls.           *)
(* RingSpec   : one ProviderRotation under repeated rotate() calls.        *)
(* DetectSpec : signals.detect_signal applied to one chunk of text.        *)
(* ParseSpec  : parser.process_line applied to one parsed line.            *)
(* ArchiveSpec: archive.archive_completed_task on a workspace whose logs   *)
(*              are appended to and whose task file is written again.      *)
(* CompressSpec: state.compress_progress_file applied to one progress.md.  *)
(***************************************************************************)
EXTENDS Integers, Naturals, Sequences, FiniteSets, TLC

\* ------------------------------------------------------------------ bounds
MaxIterations == 3
MaxVerificationFailures == 2
MaxProviders == 3
MaxCriteria == 2
MaxTimeout == 2
MaxYields == 3
MaxAdd == 4          \* largest byte / character count of one add
MaxTotal == 8        \* TrackerSpec: bytes and characters added in all
MaxMargin == 2       \* TrackerSpec: thresholds up to this far above the fresh estimate
MaxCalls == 3        \* TrackerSpec: should_warn calls
MaxEvents == 2       \* StreamSpec: events of one run
MaxStreamMargin == 8 \* StreamSpec: the far threshold, above the fresh estimate
MaxGutterCalls == 6  \* GutterSpec: track_failure and track_write calls
MaxNow == 1201       \* GutterSpec: the clock stops here (seconds)
MaxRing == 8         \* RingSpec: providers of the ring, and rotate() calls
MaxTextLen == 3      \* DetectSpec: pieces of one chunk of text
MaxStamp == 1        \* ArchiveSpec: seconds on the clock of the archive names
MaxLogEntries == 1   \* ArchiveSpec: entries appended to one log file
MaxArchiveCalls == 3 \* ArchiveSpec: calls of archive_completed_task
MaxFileLines == 6    \* CompressSpec: lines of progress.md
MaxLinesArg == 2     \* CompressSpec: the argument max_lines
MaxKeep == 3         \* CompressSpec: the argument keep_recent_lines

\* ------------------------------------------------------- signal alphabet
NONE == ""
StopSetIteration == {"ROTATE", "GUTTER", "COMPLETE", "QUESTION", "VERIFY_PASS", "VERIFY_FAIL"}
StopSetVerification == {"VERIFY_PASS", "VERIFY_FAIL", "ROTATE", "GUTTER"}
YieldedSignals == {"ROTATE", "WARN", "GUTTER", "COMPLETE", "QUESTION", "VERIFY_PASS", "VERIFY_FAIL"}

\* What run_single_iteration can return: a stop-set signal, or at end of
\* stream the last signal yielded outside the stop set (WARN) or "".
IterationReturns == StopSetIteration \cup {"WARN", NONE}
\* What run_verification_iteration can return.
VerificationReturns == StopSetVerification \cup {"WARN", "COMPLETE", "QUESTION", NONE}

VARIABLES
    pc,                     \* position of the driver
    nprov,                  \* len(provider_rotation.providers)
    current_index,          \* provider_rotation.current_index
    iteration,              \* run_ralph_loop: iteration
    verification_failures,  \* run_ralph_loop: verification_failures
    max_iterations,         \* run_ralph_loop parameter
    max_verification_failures, \* run_ralph_loop parameter
    signal,                 \* signal returned by run_single_iteration
    verify_signal,          \* signal returned by run_verification_iteration
    taskExists,             \* RALPH_TASK.md exists
    done,                   \* checked criterion lines of RALPH_TASK.md
    total,                  \* criterion lines of RALPH_TASK.md
    questionExists,         \* .ralph/question.md exists
    answer,                 \* .ralph/answer.md: "missing", "empty" or "text"
    exc,                    \* where the exception being handled was raised
    passSeen,               \* history: a verification run returned VERIFY_PASS
    implementer,            \* history: ring index of the last iteration run
    branch,                 \* run: --branch was given
    open_pr,                \* run: --pr was given
    user_answer,            \* what the operator prompt returned since the last agent run
    logs,                   \* progress.md, activity.log, errors.log: "header" or "content"
    completed,              \* the files of .ralph/completed/
    exit_commit,            \* the commit made when the run was interrupted
    \* ---- one runner call (RunnerSpec)
    rpc,                    \* position of the runner
    mode,                   \* "iteration" or "verification"
    timeout,                \* timeout parameter (seconds)
    elapsed,                \* time.time() - start_time
    child,                  \* agent process: "none","running","silent","exited","terminated","reaped"
    rsignal,                \* the runner's local `signal`
    yields,                 \* signals parse_stream has yielded so far
    outcome,                \* "none", "returned" or "raised"
    exit_status,            \* the child's exit status: "none" while it runs, "zero", "nonzero"
    \* ---- the token tracker of the run (TokenTracker)
    bytes_read,
    bytes_written,
    assistant_chars,
    shell_output_chars,
    warn_sent,
    warn_threshold,
    rotate_threshold,
    \* ---- the generator parse_stream (StreamSpec)
    gpc,                    \* where it is suspended: "read", "signal", "rotate", "warn";
                            \* "callback_raised" when a callback's error ended it
    processed,              \* events handed to process_line so far
    rotate_tagged,          \* history: an assistant text had the ROTATE tag and no COMPLETE tag
    \* ---- TrackerSpec
    warn_results,           \* history: per should_warn call, what it returned and
                            \* whether the estimate was at or above the threshold
    \* ---- one GutterDetector (GutterSpec)
    failures,               \* GutterDetector.failures: command -> count
    writes,                 \* GutterDetector.writes: list of (timestamp, filepath)
    now,                    \* int(time.time())
    failed_calls,           \* history: track_failure calls per command with exit code /= 0
    ok_calls,               \* history: track_failure calls per command with exit code 0
    write_calls,            \* history: every track_write call, (timestamp, filepath)
    gutter_result,          \* what the last track_* call returned: "true", "false", "unset"
    \* ---- one ProviderRotation (RingSpec)
    visited,                \* history: the cursors rotate() has left, since the start
    rotations,              \* history: rotate() calls since the start
    \* ---- detect_signal (DetectSpec)
    text,                   \* the chunk: a sequence of pieces, a tag name or plain text
    detected,               \* what detect_signal returned for it
    \* ---- process_line (ParseSpec)
    event,                  \* the parsed line handed to process_line
    line_signal,            \* what process_line returned for it
    \* ---- archive.archive_completed_task (ArchiveSpec)
    task_file,              \* RALPH_TASK.md exists
    state_files,            \* .ralph/progress.md, activity.log, errors.log
    completed_dir,          \* the files of .ralph/completed
    archive_result,         \* what the last call returned: "archived", "none", "unset"
    archive_calls,          \* history: calls of archive_completed_task
    \* ---- state.compress_progress_file (CompressSpec)
    progress_lines,         \* the lines of .ralph/progress.md, by kind
    compress_args,          \* max_lines and keep_recent_lines of the call
    compress_result         \* what the call returned: "true", "false", "unset"

gutterVars == <<failures, writes, now, failed_calls, ok_calls, write_calls, gutter_result>>
\* The objects exercised on their own; no step of the driver or of a runner
\* touches them.
archiveVars == <<task_file, state_files, completed_dir, archive_result, archive_calls>>
compressVars == <<progress_lines, compress_args, compress_result>>
unitVars == <<gutterVars, visited, rotations, text, detected, event, line_signal,
              archiveVars, compressVars>>
loopVars == <<pc, nprov, current_index, iteration, verification_failures,
                max_iterations, max_verification_failures, signal, verify_signal,
                taskExists, done, total, questionExists, answer, exc,
                passSeen, implementer, branch, open_pr, user_answer, logs,
                completed, exit_commit>>
driverVars == <<loopVars, unitVars>>
trackerVars == <<bytes_read, bytes_written, assistant_chars, shell_output_chars,
                 warn_sent, warn_threshold, rotate_threshold>>
streamVars == <<trackerVars, gpc, processed, rotate_tagged, warn_results>>
callVars == <<rpc, mode, timeout, exit_status, elapsed, child, rsignal, yields, outcome, streamVars>>
runnerVars == <<callVars, unitVars>>
vars == <<driverVars, runnerVars>>

\* ---------------------------------------------------------- task file
\* task.count_criteria: (done, total) of the checkbox lines.
count_criteria(d, t) == <<d, t>>

\* Mutant of check_completion: a file without criteria counts as complete.
check_completion_EmptyIsComplete(d, t) ==
    LET c == count_criteria(d, t) IN
    IF c[1] = c[2] THEN "COMPLETE"
    ELSE "INCOMPLETE"

\* task.check_completion on an existing task file.
check_completion(d, t) ==
    LET c == count_criteria(d, t) IN
    IF c[2] = 0 THEN "NO_CRITERIA"
    ELSE IF c[1] = c[2] THEN "COMPLETE"
    ELSE "INCOMPLETE"

\* The states the agent (which edits everything in the workspace) can leave
\* the task file in.
TaskStates == {t \in [exists : BOOLEAN, done : 0..MaxCriteria, total : 0..MaxCriteria] :
                   /\ t.done <= t.total
                   /\ (~t.exists => t.total = 0)}


\* ------------------------------------------------------- provider ring
\* Mutant of rotate: the cursor is never moved.
rotate_Stay(idx, n) == idx

\* Mutant of rotate: every second member is skipped.
rotate_Skip(idx, n) ==
    IF n = 0 THEN idx
    ELSE IF n = 1 THEN idx
    ELSE (idx + 2) % n

\* ProviderRotation.rotate: the cursor after the call.
rotate(idx, n) ==
    IF n = 0 THEN idx
    ELSE IF n = 1 THEN idx
    ELSE (idx + 1) % n

\* Mutant of has_next: a ring of one member counts as having a next one.
has_next_Nonempty(n) == n >= 1

\* ProviderRotation.has_next
has_next(n) == n > 1

\* ------------------------------------------------------- gutter detector
\* gutter.py: the literals of track_failure and track_write.
FAILURE_LIMIT == 3
WRITE_LIMIT == 5
WRITE_WINDOW == 600

Commands == {"npm test", "npm build"}
Paths == {"a.py", "b.py"}

\* GutterDetector.__init__
GutterFresh ==
    /\ failures = [c \in Commands |-> 0]
    /\ writes = <<>>

GutterIdle ==
    /\ GutterFresh
    /\ now = 0
    /\ failed_calls = [c \in Commands |-> 0]
    /\ ok_calls = [c \in Commands |-> 0]
    /\ write_calls = <<>>
    /\ gutter_result = "unset"

RingIdle ==
    /\ visited = {}
    /\ rotations = 0

DetectIdle ==
    /\ text = <<>>
    /\ detected = "unset"

ParseIdle ==
    /\ event = [type |-> "system", content |-> <<>>, size |-> 0, detector |-> FALSE]
    /\ line_signal = "unset"

StateFileNames == {"progress.md", "activity.log", "errors.log"}

ArchiveIdle ==
    /\ task_file = FALSE
    /\ state_files = [f \in StateFileNames |-> [exists |-> FALSE, content |-> <<>>]]
    /\ completed_dir = {}
    /\ archive_result = "unset"
    /\ archive_calls = 0

CompressIdle ==
    /\ progress_lines = <<>>
    /\ compress_args = [max_lines |-> 0, keep_recent_lines |-> 0]
    /\ compress_result = "unset"

UnitIdle == GutterIdle /\ RingIdle /\ DetectIdle /\ ParseIdle /\ ArchiveIdle /\ CompressIdle

\* ------------------------------------------------------------ the driver
\* The state when `run` has validated its prerequisites: the task file
\* exists and parses, the ring holds the providers found on PATH (possibly
\* none), the parameters are the caller's.
DriverInputs ==
    /\ pc = "cli"
    /\ nprov \in 0..MaxProviders
    /\ current_index = 0
    /\ iteration = 1
    /\ verification_failures = 0
    /\ max_iterations \in 0..MaxIterations
    /\ max_verification_failures \in 0..MaxVerificationFailures
    /\ signal = NONE
    /\ verify_signal = NONE
    /\ taskExists = TRUE
    /\ total \in 0..MaxCriteria
    /\ done \in 0..total
    /\ questionExists = FALSE
    /\ answer = "missing"
    /\ exc = "none"
    /\ passSeen = FALSE
    /\ implementer = -1
    /\ user_answer = "unset"
    /\ logs = "header"
    /\ completed = {}
    /\ exit_commit = "none"
    /\ UnitIdle

\* Spec follows the runs started without --branch and --pr (the two are
\* read by cli.run and, at the end, by push_branch / open_pr, which catch
\* their own errors); CliSpec has every combination of the two.
DriverInit ==
    /\ DriverInputs
    /\ branch = FALSE
    /\ open_pr = FALSE

\* tokens.py: the default thresholds and the prompt estimate.
WARN_THRESHOLD == 72000
ROTATE_THRESHOLD == 80000
PromptChars == 3000

\* TokenTracker.__init__: the counters of a new tracker.
TrackerFresh ==
    /\ bytes_read = 0
    /\ bytes_written = 0
    /\ assistant_chars = 0
    /\ shell_output_chars = 0
    /\ warn_sent = FALSE

\* A tracker with the default thresholds, and a generator not started.
StreamIdle ==
    /\ TrackerFresh
    /\ warn_threshold = WARN_THRESHOLD
    /\ rotate_threshold = ROTATE_THRESHOLD
    /\ gpc = "read"
    /\ processed = 0
    /\ rotate_tagged = FALSE
    /\ warn_results = <<>>

RunnerIdle ==
    /\ rpc = "idle"
    /\ mode = "iteration"
    /\ timeout = 0
    /\ elapsed = 0
    /\ child = "none"
    /\ rsignal = NONE
    /\ yields = <<>>
    /\ outcome = "none"
    /\ exit_status = "none"
    /\ StreamIdle

Init == DriverInit /\ RunnerIdle

CliInit ==
    /\ DriverInputs
    /\ branch \in BOOLEAN
    /\ open_pr \in BOOLEAN
    /\ RunnerIdle

ringVars == <<nprov, current_index>>
counterVars == <<iteration, verification_failures>>
paramVars == <<max_iterations, max_verification_failures, branch, open_pr>>
taskVars == <<taskExists, done, total>>
qaVars == <<questionExists, answer>>
histVars == <<passSeen, implementer>>
fileVars == <<logs, completed>>

\* Mutant of CliRun: the options are validated before the task file is
\* looked at.
CliRun_ValidatesFirst ==
    /\ pc = "cli"
    /\ pc' = IF open_pr /\ ~branch THEN "exit1"
             ELSE IF check_completion(done, total) = "COMPLETE" THEN "exit0"
             ELSE "start"
    /\ UNCHANGED <<ringVars, counterVars, paramVars, signal, verify_signal,
                   taskVars, qaVars, exc, histVars, runnerVars,
                   user_answer, fileVars, exit_commit>>

\* cli.run without --once: the task file exists and parses; a task whose
\* criteria are all checked ends the command with code 0; then --pr without
\* --branch ends it with "--pr requires --branch" and code 1; else the loop
\* is entered.
CliRun ==
    /\ pc = "cli"
    /\ pc' = IF check_completion(done, total) = "COMPLETE" THEN "exit0"
             ELSE IF open_pr /\ ~branch THEN "exit1"
             ELSE "start"
    /\ UNCHANGED <<ringVars, counterVars, paramVars, signal, verify_signal,
                   taskVars, qaVars, exc, histVars, runnerVars,
                   user_answer, fileVars, exit_commit>>

\* run_ralph_loop up to the while loop: no provider is fatal.
Start ==
    /\ pc = "start"
    /\ pc' = IF nprov = 0 THEN "raised" ELSE "loop"
    /\ iteration' = 1
    /\ verification_failures' = 0
    /\ UNCHANGED <<ringVars, paramVars, signal, verify_signal,
                   taskVars, qaVars, exc, histVars, runnerVars,
                   user_answer, fileVars, exit_commit>>

\* Mutant of LoopTop: the loop running out of iterations ends the function
\* by a plain return.
LoopTop_ReturnsAtMax ==
    /\ pc = "loop"
    /\ IF iteration <= max_iterations
       THEN /\ pc' = "iter"
            /\ questionExists' = FALSE
            /\ answer' = "missing"
       ELSE /\ pc' = "returned"
            /\ UNCHANGED qaVars
    /\ signal' = NONE
    /\ verify_signal' = NONE
    /\ exc' = "none"
    /\ UNCHANGED <<ringVars, counterVars, paramVars, taskVars, histVars, runnerVars,
                   user_answer, fileVars, exit_commit>>

\* Mutant of LoopTop: the while test lets one more pass through.
LoopTop_OneMorePass ==
    /\ pc = "loop"
    /\ IF iteration <= max_iterations + 1
       THEN /\ pc' = "iter"
            /\ questionExists' = FALSE
            /\ answer' = "missing"
       ELSE /\ pc' = "raised"
            /\ UNCHANGED qaVars
    /\ signal' = NONE
    /\ verify_signal' = NONE
    /\ exc' = "none"
    /\ UNCHANGED <<ringVars, counterVars, paramVars, taskVars, histVars, runnerVars,
                   user_answer, fileVars, exit_commit>>

\* The while test, and the top of the loop body: question.md and answer.md
\* are unlinked, the current provider is read.  When the test fails the
\* loop ends and "Max iterations reached" is raised.
LoopTop ==
    /\ pc = "loop"
    /\ IF iteration <= max_iterations
       THEN /\ pc' = "iter"
            /\ questionExists' = FALSE
            /\ answer' = "missing"
       ELSE /\ pc' = "raised"
            /\ UNCHANGED qaVars
    /\ signal' = NONE      \* locals of the previous pass, assigned again
    /\ verify_signal' = NONE   \* before they are read
    /\ exc' = "none"
    /\ UNCHANGED <<ringVars, counterVars, paramVars, taskVars, histVars, runnerVars,
                   user_answer, fileVars, exit_commit>>

\* run_single_iteration returns: the agent ran, edited the workspace, and the
\* runner hands back a signal.
RunIterationReturns ==
    /\ pc = "iter"
    /\ \E s \in IterationReturns, t \in TaskStates, q \in BOOLEAN :
          /\ signal' = s
          /\ taskExists' = t.exists
          /\ done' = t.done
          /\ total' = t.total
          /\ questionExists' = q
    /\ implementer' = current_index
    /\ user_answer' = "unset"
    /\ logs' = "content"     \* "Session N started" goes to progress.md
    /\ pc' = "iter_ret"
    /\ UNCHANGED <<ringVars, counterVars, paramVars, verify_signal, answer, exc,
                   passSeen, runnerVars, completed, exit_commit>>

\* run_single_iteration raises: the spawn fails (nothing ran), or reading the
\* stream fails (the agent ran and may have edited the workspace).
RunIterationRaises ==
    /\ pc = "iter"
    /\ \/ UNCHANGED <<taskVars, questionExists, implementer>>
       \/ /\ \E t \in TaskStates, q \in BOOLEAN :
                /\ taskExists' = t.exists
                /\ done' = t.done
                /\ total' = t.total
                /\ questionExists' = q
          /\ implementer' = current_index
    /\ exc' = "run_single_iteration"
    /\ user_answer' = "unset"
    /\ pc' = "except"
    /\ UNCHANGED <<ringVars, counterVars, paramVars, signal, verify_signal, answer,
                   passSeen, runnerVars, fileVars, exit_commit>>

\* task.check_completion reads the task file: a missing file raises inside
\* the try block.
CheckCompletionRaises ==
    /\ pc = "iter_ret"
    /\ ~taskExists
    /\ exc' = "check_completion"
    /\ pc' = "except"
    /\ UNCHANGED <<ringVars, counterVars, paramVars, signal, verify_signal,
                   taskVars, qaVars, histVars, runnerVars,
                   user_answer, fileVars, exit_commit>>

completion_status == check_completion(done, total)
should_verify == completion_status = "COMPLETE"

\* Mutant of HandleCompleteCriteriaRemain: the agent's COMPLETE is believed
\* and the verification is started.
HandleCompleteCriteriaRemain_Verifies ==
    /\ pc = "iter_ret"
    /\ taskExists
    /\ signal = "COMPLETE"
    /\ completion_status # "COMPLETE"
    /\ current_index' = rotate(current_index, nprov)
    /\ pc' = "verify"
    /\ UNCHANGED <<nprov, counterVars, paramVars, signal, verify_signal,
                   taskVars, qaVars, exc, histVars, runnerVars,
                   user_answer, fileVars, exit_commit>>

\* signal == "COMPLETE" and completion_status != "COMPLETE"
HandleCompleteCriteriaRemain ==
    /\ pc = "iter_ret"
    /\ taskExists
    /\ signal = "COMPLETE"
    /\ completion_status # "COMPLETE"
    /\ iteration' = iteration + 1
    /\ pc' = "loop"
    /\ UNCHANGED <<ringVars, verification_failures, paramVars, signal, verify_signal,
                   taskVars, qaVars, exc, histVars, runnerVars,
                   user_answer, fileVars, exit_commit>>

\* loop.archive_completed_task: the rename can fail (the file stays), and
\* the commit can fail after the rename (the file is gone).
ArchiveOutcomes == {"ok", "rename_failed", "commit_failed"}

\* The archive step of the driver is the archive_completed_task defined in
\* loop.py: RALPH_TASK.md is renamed to .ralph/completed/RALPH_TASK_<ts>.md
\* and the move is committed; the log files are not read or written by it
\* (the "Task archived" line then goes to progress.md).
Archive(o) ==
    IF ~taskExists
    THEN /\ pc' = "returned"
         /\ UNCHANGED <<taskVars, exc, fileVars>>
    ELSE /\ pc' = IF o = "ok" THEN "returned" ELSE "except"
         /\ exc' = IF o = "ok" THEN exc ELSE "archive_completed_task"
         /\ taskExists' = (o = "rename_failed")
         /\ done' = IF o = "rename_failed" THEN done ELSE 0
         /\ total' = IF o = "rename_failed" THEN total ELSE 0
         /\ completed' = IF o = "rename_failed" THEN completed
                          ELSE completed \cup {"RALPH_TASK"}
         /\ logs' = logs

\* should_verify and verification_failures >= max_verification_failures:
\* "Verification skipped - Max failures reached, completing anyway".
HandleMaxVerificationFailures ==
    /\ pc = "iter_ret"
    /\ taskExists
    /\ should_verify
    /\ verification_failures >= max_verification_failures
    /\ \E o \in ArchiveOutcomes : Archive(o)
    /\ UNCHANGED <<ringVars, counterVars, paramVars, signal, verify_signal,
                   qaVars, histVars, runnerVars, user_answer, exit_commit>>

\* Mutant of StartVerification: the failure budget is not looked at.
StartVerification_NoLimit ==
    /\ pc = "iter_ret"
    /\ taskExists
    /\ should_verify
    /\ current_index' = rotate(current_index, nprov)
    /\ pc' = "verify"
    /\ signal' = NONE
    /\ UNCHANGED <<nprov, counterVars, paramVars, verify_signal,
                   taskVars, qaVars, exc, histVars, runnerVars,
                   user_answer, fileVars, exit_commit>>

\* should_verify: rotate to a different provider, start the verification.
StartVerification ==
    /\ pc = "iter_ret"
    /\ taskExists
    /\ should_verify
    /\ verification_failures < max_verification_failures
    /\ current_index' = rotate(current_index, nprov)
    /\ pc' = "verify"
    /\ signal' = NONE      \* dead from here on: not read again before LoopTop
    /\ UNCHANGED <<nprov, counterVars, paramVars, verify_signal,
                   taskVars, qaVars, exc, histVars, runnerVars,
                   user_answer, fileVars, exit_commit>>


\* Mutant of HandleRotate: ROTATE also moves the ring.
HandleRotate_AdvancesRing ==
    /\ pc = "iter_ret"
    /\ taskExists
    /\ ~should_verify
    /\ signal = "ROTATE"
    /\ iteration' = iteration + 1
    /\ current_index' = rotate(current_index, nprov)
    /\ pc' = "sleep"
    /\ UNCHANGED <<nprov, verification_failures, paramVars, signal, verify_signal,
                   taskVars, qaVars, exc, histVars, runnerVars,
                   user_answer, fileVars, exit_commit>>

\* elif signal == "ROTATE": iteration += 1, the ring is left alone; the
\* branch falls through to the sleep at the end of the loop body.
HandleRotate ==
    /\ pc = "iter_ret"
    /\ taskExists
    /\ ~should_verify
    /\ signal = "ROTATE"
    /\ iteration' = iteration + 1
    /\ pc' = "sleep"
    /\ UNCHANGED <<ringVars, verification_failures, paramVars, signal, verify_signal,
                   taskVars, qaVars, exc, histVars, runnerVars,
                   user_answer, fileVars, exit_commit>>

\* Mutant of HandleGutter: the iteration counter moves on after every GUTTER.
HandleGutter_NextIteration ==
    /\ pc = "iter_ret"
    /\ taskExists
    /\ ~should_verify
    /\ signal = "GUTTER"
    /\ current_index' = rotate(current_index, nprov)
    /\ iteration' = iteration + 1
    /\ pc' = "loop"
    /\ UNCHANGED <<nprov, verification_failures, paramVars, signal, verify_signal,
                   taskVars, qaVars, exc, histVars, runnerVars,
                   user_answer, fileVars, exit_commit>>

\* elif signal == "GUTTER": rotate; with another provider retry the same
\* iteration, else iteration += 1.
HandleGutter ==
    /\ pc = "iter_ret"
    /\ taskExists
    /\ ~should_verify
    /\ signal = "GUTTER"
    /\ current_index' = rotate(current_index, nprov)
    /\ iteration' = IF nprov >= 1 /\ has_next(nprov) THEN iteration ELSE iteration + 1
    /\ pc' = "loop"
    /\ UNCHANGED <<nprov, verification_failures, paramVars, signal, verify_signal,
                   taskVars, qaVars, exc, histVars, runnerVars,
                   user_answer, fileVars, exit_commit>>

\* wait_for_user_input_with_timeout(60): the text typed, or None on timeout
\* or empty input ("none"), or None because the wait was interrupted from
\* the keyboard ("interrupt").
UserAnswers == {"text", "none", "interrupt"}

\* Mutant of HandleQuestion: answer.md is written only when the operator
\* has typed an answer.
HandleQuestion_NoEmptyAnswer ==
    /\ pc = "iter_ret"
    /\ taskExists
    /\ ~should_verify
    /\ signal = "QUESTION"
    /\ IF questionExists
       THEN /\ user_answer' \in UserAnswers
            /\ answer' = IF user_answer' = "text" THEN "text" ELSE answer
            /\ questionExists' = FALSE
       ELSE UNCHANGED <<qaVars, user_answer>>
    /\ iteration' = iteration + 1
    /\ pc' = "loop"
    /\ UNCHANGED <<ringVars, verification_failures, paramVars, signal, verify_signal,
                   taskVars, exc, histVars, runnerVars, fileVars, exit_commit>>

\* elif signal == "QUESTION": show question.md, wait for the operator, write
\* answer.md (empty when there is no answer), unlink question.md;
\* iteration += 1.
HandleQuestion ==
    /\ pc = "iter_ret"
    /\ taskExists
    /\ ~should_verify
    /\ signal = "QUESTION"
    /\ IF questionExists
       THEN /\ user_answer' \in UserAnswers
            /\ answer' = IF user_answer' = "text" THEN "text" ELSE "empty"
            /\ questionExists' = FALSE
       ELSE UNCHANGED <<qaVars, user_answer>>
    /\ iteration' = iteration + 1
    /\ pc' = "loop"
    /\ UNCHANGED <<ringVars, verification_failures, paramVars, signal, verify_signal,
                   taskVars, exc, histVars, runnerVars, fileVars, exit_commit>>

\* else: "Agent finished naturally": iteration += 1 only when
\* completion_status starts with "INCOMPLETE:"; then the sleep.
HandleNatural ==
    /\ pc = "iter_ret"
    /\ taskExists
    /\ ~should_verify
    /\ signal \notin {"COMPLETE", "ROTATE", "GUTTER", "QUESTION"}
    /\ iteration' = IF completion_status = "INCOMPLETE" THEN iteration + 1 ELSE iteration
    /\ pc' = "sleep"
    /\ UNCHANGED <<ringVars, verification_failures, paramVars, signal, verify_signal,
                   taskVars, qaVars, exc, histVars, runnerVars,
                   user_answer, fileVars, exit_commit>>

\* time.sleep(2) at the end of the loop body.
Sleep ==
    /\ pc = "sleep"
    /\ pc' = "loop"
    /\ UNCHANGED <<ringVars, counterVars, paramVars, signal, verify_signal,
                   taskVars, qaVars, exc, histVars, runnerVars,
                   user_answer, fileVars, exit_commit>>

\* run_verification_iteration returns.  An error while the stream is parsed
\* is caught inside the runner, which then returns VERIFY_FAIL.
RunVerificationReturns ==
    /\ pc = "verify"
    /\ \E s \in VerificationReturns, t \in TaskStates, q \in BOOLEAN :
          /\ verify_signal' = s
          /\ taskExists' = t.exists
          /\ done' = t.done
          /\ total' = t.total
          /\ questionExists' = q
          /\ passSeen' = (passSeen \/ s = "VERIFY_PASS")
    /\ pc' = "verify_ret"
    /\ UNCHANGED <<ringVars, counterVars, paramVars, signal, answer, exc,
                   implementer, runnerVars,
                   user_answer, fileVars, exit_commit>>

\* run_verification_iteration raises: get_command, Popen and the write of
\* the prompt are outside its try block, so a failure there reaches the
\* driver's except clause.
RunVerificationRaises ==
    /\ pc = "verify"
    /\ exc' = "run_verification_iteration"
    /\ pc' = "except"
    /\ UNCHANGED <<ringVars, counterVars, paramVars, signal, verify_signal,
                   taskVars, qaVars, histVars, runnerVars,
                   user_answer, fileVars, exit_commit>>

\* if verify_signal == "VERIFY_PASS": archive and return.
HandleVerifyPass ==
    /\ pc = "verify_ret"
    /\ verify_signal = "VERIFY_PASS"
    /\ \E o \in ArchiveOutcomes : Archive(o)
    /\ UNCHANGED <<ringVars, counterVars, paramVars, signal, verify_signal,
                   qaVars, histVars, runnerVars, user_answer, exit_commit>>

\* elif verify_signal == "VERIFY_FAIL": verification_failures += 1,
\* iteration += 1, continue.
HandleVerifyFail ==
    /\ pc = "verify_ret"
    /\ verify_signal = "VERIFY_FAIL"
    /\ verification_failures' = verification_failures + 1
    /\ iteration' = iteration + 1
    /\ pc' = "loop"
    /\ UNCHANGED <<ringVars, paramVars, signal, verify_signal,
                   taskVars, qaVars, exc, histVars, runnerVars,
                   user_answer, fileVars, exit_commit>>

\* Mutant of HandleVerifyOther: an inconclusive verification only continues
\* the loop, it is not counted.
HandleVerifyOther_NotCounted ==
    /\ pc = "verify_ret"
    /\ verify_signal \notin {"VERIFY_PASS", "VERIFY_FAIL"}
    /\ iteration' = iteration + 1
    /\ pc' = "loop"
    /\ UNCHANGED <<ringVars, verification_failures, paramVars, signal, verify_signal,
                   taskVars, qaVars, exc, histVars, runnerVars,
                   user_answer, fileVars, exit_commit>>

\* else: "Verification inconclusive ... Treating as failure".
HandleVerifyOther ==
    /\ pc = "verify_ret"
    /\ verify_signal \notin {"VERIFY_PASS", "VERIFY_FAIL"}
    /\ verification_failures' = verification_failures + 1
    /\ iteration' = iteration + 1
    /\ pc' = "loop"
    /\ UNCHANGED <<ringVars, paramVars, signal, verify_signal,
                   taskVars, qaVars, exc, histVars, runnerVars,
                   user_answer, fileVars, exit_commit>>

\* Mutant of HandleException: the exception ends the loop.
HandleException_Reraise ==
    /\ pc = "except"
    /\ pc' = "raised"
    /\ UNCHANGED <<ringVars, counterVars, paramVars, signal, verify_signal,
                   taskVars, qaVars, exc, histVars, runnerVars,
                   user_answer, fileVars, exit_commit>>

\* except Exception: rotate; with another provider retry the same iteration,
\* else iteration += 1.
HandleException ==
    /\ pc = "except"
    /\ current_index' = rotate(current_index, nprov)
    /\ iteration' = IF nprov >= 1 /\ has_next(nprov) THEN iteration ELSE iteration + 1
    /\ pc' = "loop"
    /\ UNCHANGED <<nprov, verification_failures, paramVars, signal, verify_signal,
                   taskVars, qaVars, exc, histVars, runnerVars,
                   user_answer, fileVars, exit_commit>>

\* Mutant of Interrupt: the command exits without the commit.
Interrupt_NoCommit ==
    /\ pc \in {"iter", "verify", "sleep"}
    /\ pc' = "interrupted"
    /\ UNCHANGED <<ringVars, counterVars, paramVars, signal, verify_signal,
                   taskVars, qaVars, exc, histVars, runnerVars,
                   user_answer, fileVars, exit_commit>>

\* cli.run, except KeyboardInterrupt around run_ralph_loop: no handler of
\* the loop or of the runners catches it, so an interrupt while an agent
\* runs or during the sleep ends run_ralph_loop; uncommitted changes are
\* committed as "ralph: interrupted - saving progress"; exit code 1.
Interrupt ==
    /\ pc \in {"iter", "verify", "sleep"}
    /\ \E has_uncommitted_changes \in BOOLEAN :
          exit_commit' = IF has_uncommitted_changes THEN "saving progress" ELSE "nothing"
    /\ pc' = "interrupted"
    /\ UNCHANGED <<ringVars, counterVars, paramVars, signal, verify_signal,
                   taskVars, qaVars, exc, histVars, runnerVars,
                   user_answer, fileVars>>

Next ==
    \/ CliRun
    \/ Start
    \/ LoopTop
    \/ RunIterationReturns
    \/ RunIterationRaises
    \/ CheckCompletionRaises
    \/ HandleCompleteCriteriaRemain
    \/ HandleMaxVerificationFailures
    \/ StartVerification
    \/ HandleRotate
    \/ HandleGutter
    \/ HandleQuestion
    \/ HandleNatural
    \/ Sleep
    \/ RunVerificationReturns
    \/ RunVerificationRaises
    \/ HandleVerifyPass
    \/ HandleVerifyFail
    \/ HandleVerifyOther
    \/ HandleException
    \/ Interrupt

Spec == Init /\ [][Next]_vars

\* The driver is one sequential program: a step that can be taken is taken.
FairSpec == Init /\ [][Next]_vars /\ WF_vars(Next)

\* The `run` command alone, up to the call of run_ralph_loop, over every
\* combination of --branch and --pr.
CliNext == CliRun

CliSpec == CliInit /\ [][CliNext]_vars

\* The driver has ended: `run` exits with code 0 ("exit0": task already
\* complete; "returned": run_ralph_loop returned) or 1 ("exit1": invalid
\* options; "raised": run_ralph_loop raised; "interrupted").
Terminated == pc \in {"exit0", "exit1", "returned", "raised", "interrupted"}


\* ------------------------------------------------- one runner call
\* run_single_iteration (mode "iteration") and run_verification_iteration
\* (mode "verification") differ in the stop set, in the signal a timeout
\* gives and in what the except clause does.
\* Mutant of stop_set: the verification runner stops at the signals the
\* iteration runner stops at.
stop_set_Same(m) == StopSetIteration

stop_set(m) == IF m = "iteration" THEN StopSetIteration ELSE StopSetVerification
timeout_signal(m) == IF m = "iteration" THEN "ROTATE" ELSE "VERIFY_FAIL"

\* The other specifications leave the driver where it calls into them.
LoopFrozen ==
    /\ pc = "runner"
    /\ iteration = 1
    /\ verification_failures = 0
    /\ max_iterations = 1
    /\ max_verification_failures = 1
    /\ signal = NONE
    /\ verify_signal = NONE
    /\ taskExists = TRUE
    /\ total = 0
    /\ done = 0
    /\ questionExists = FALSE
    /\ answer = "missing"
    /\ exc = "none"
    /\ passSeen = FALSE
    /\ implementer = -1
    /\ branch = FALSE
    /\ open_pr = FALSE
    /\ user_answer = "unset"
    /\ logs = "header"
    /\ completed = {}
    /\ exit_commit = "none"

DriverFrozen ==
    /\ LoopFrozen
    /\ nprov = 1
    /\ current_index = 0
    /\ UnitIdle

RunnerInit ==
    /\ DriverFrozen
    /\ rpc = "spawn"
    /\ mode \in {"iteration", "verification"}
    /\ timeout \in 1..MaxTimeout
    /\ elapsed = 0
    /\ child = "none"
    /\ rsignal = NONE
    /\ yields = <<>>
    /\ outcome = "none"
    /\ exit_status = "none"
    /\ StreamIdle

\* get_command, subprocess.Popen, the write of the prompt: the child runs
\* and start_time is taken.
SpawnOk ==
    /\ rpc = "spawn"
    /\ child' = "running"
    /\ elapsed' = 0
    /\ rpc' = "readline"
    /\ UNCHANGED <<driverVars, streamVars, mode, timeout, exit_status, rsignal, yields, outcome>>

\* The same statements raise: they stand before the try block of both
\* runners, so the error leaves the runner.  get_command or Popen raises
\* (no such program) and there is no child, or the write of the prompt
\* raises (broken pipe) and there is one, which nothing terminates or waits
\* for.
SpawnRaises ==
    /\ rpc = "spawn"
    /\ child' \in {"none", "running"}
    /\ outcome' = "raised"
    /\ rpc' = "done"
    /\ UNCHANGED <<driverVars, streamVars, mode, timeout, exit_status, elapsed, rsignal, yields>>

\* Wall-clock time passes while the runner is in its for loop.
Tick ==
    /\ rpc \in {"readline", "body"}
    /\ elapsed <= timeout
    /\ elapsed' = elapsed + 1
    /\ UNCHANGED <<driverVars, streamVars, rpc, mode, timeout, exit_status, child, rsignal, yields, outcome>>

\* The child stops writing without exiting: readline() has nothing to
\* return and no end of file either.
ChildBlocks ==
    /\ child = "running"
    /\ child' = "silent"
    /\ UNCHANGED <<driverVars, streamVars, rpc, mode, timeout, exit_status, elapsed, rsignal, yields, outcome>>

\* The child exits by itself: its stdout reaches end of file.
ChildExits ==
    /\ child = "running"
    /\ child' = "exited"
    /\ exit_status' \in {"zero", "nonzero"}
    /\ UNCHANGED <<driverVars, streamVars, rpc, mode, timeout, elapsed, rsignal, yields, outcome>>

\* parse_stream: readline() returns a line the child has written (it may
\* have exited since), and the line makes the generator yield sig; the for
\* loop assigns signal = sig.
ReadYield ==
    /\ rpc = "readline"
    /\ child \in {"running", "exited"}
    /\ Len(yields) < MaxYields
    /\ \E sig \in YieldedSignals :
          /\ rsignal' = sig
          /\ yields' = Append(yields, sig)
    /\ rpc' = "body"
    /\ UNCHANGED <<driverVars, streamVars, mode, timeout, exit_status, elapsed, child, outcome>>

\* parse_stream: readline() returns b"" (the child has exited), the
\* generator ends and so does the for loop.
ReadEof ==
    /\ rpc = "readline"
    /\ gpc \in {"read", "warn"}     \* the generator is at (or resumes into) readline()
    /\ child = "exited"
    /\ rpc' = "wait"
    /\ UNCHANGED <<driverVars, streamVars, mode, timeout, exit_status, elapsed, child, rsignal, yields, outcome>>

\* An exception while the stream is parsed: terminate the child; the
\* iteration runner re-raises, the verification runner sets VERIFY_FAIL and
\* goes on to the wait.
StreamRaises ==
    /\ rpc = "readline"
    /\ child \in {"running", "exited"}
    /\ child' = IF child = "running" THEN "terminated" ELSE child
    /\ IF mode = "iteration"
       THEN /\ outcome' = "raised"
            /\ rpc' = "done"
            /\ UNCHANGED rsignal
       ELSE /\ rsignal' = "VERIFY_FAIL"
            /\ rpc' = "wait"
            /\ UNCHANGED outcome
    /\ UNCHANGED <<driverVars, streamVars, mode, timeout, exit_status, elapsed, yields>>

\* The body of the for loop after signal = sig: a stop-set signal
\* terminates the child and breaks; otherwise the elapsed time is compared
\* with the timeout.
LoopBody ==
    /\ rpc = "body"
    /\ IF rsignal \in stop_set(mode)
       THEN /\ child' = IF child \in {"running", "silent"} THEN "terminated" ELSE child
            /\ rpc' = "wait"
            /\ UNCHANGED rsignal
       ELSE IF elapsed > timeout
       THEN /\ child' = IF child \in {"running", "silent"} THEN "terminated" ELSE child
            /\ rsignal' = timeout_signal(mode)
            /\ rpc' = "wait"
       ELSE /\ rpc' = "readline"
            /\ UNCHANGED <<child, rsignal>>
    /\ UNCHANGED <<driverVars, streamVars, mode, timeout, exit_status, elapsed, yields, outcome>>

\* agent_process.wait(timeout=10), then kill() and wait(): the child is
\* reaped and the runner returns signal.
WaitAndReturn ==
    /\ rpc = "wait"
    /\ child' = "reaped"
    /\ outcome' = "returned"
    /\ rpc' = "done"
    /\ UNCHANGED <<driverVars, streamVars, mode, timeout, exit_status, elapsed, rsignal, yields>>

RunnerNext ==
    \/ SpawnOk
    \/ SpawnRaises
    \/ Tick
    \/ ChildBlocks
    \/ ChildExits
    \/ ReadYield
    \/ ReadEof
    \/ StreamRaises
    \/ LoopBody
    \/ WaitAndReturn

RunnerSpec == RunnerInit /\ [][RunnerNext]_vars

\* The runner's own statements run when they can, and time passes; nothing
\* is assumed of the child.
RunnerFairSpec ==
    /\ RunnerInit
    /\ [][RunnerNext]_vars
    /\ WF_vars(Tick)
    /\ WF_vars(ReadEof)
    /\ WF_vars(LoopBody)
    /\ WF_vars(WaitAndReturn)


\* ------------------------------------------------------ the token tracker
\* TokenTracker.calculate_tokens, from the four counters.
tokens_of(r, w, a, sh) == (PromptChars + r + w + a + sh) \div 4

calculate_tokens == tokens_of(bytes_read, bytes_written, assistant_chars, shell_output_chars)

\* TokenTracker.should_rotate
should_rotate == calculate_tokens >= rotate_threshold

\* Mutant of should_warn_result: the latch is not looked at.
should_warn_result_NoLatch == calculate_tokens >= warn_threshold

\* TokenTracker.should_warn: what the call returns (it then sets warn_sent).
should_warn_result == calculate_tokens >= warn_threshold /\ ~warn_sent

\* The estimate of a new tracker.
FreshTokens == PromptChars \div 4

TrackerInit ==
    /\ DriverFrozen
    /\ rpc = "idle"
    /\ mode = "iteration"
    /\ timeout = 0
    /\ elapsed = 0
    /\ child = "none"
    /\ rsignal = NONE
    /\ yields = <<>>
    /\ outcome = "none"
    /\ exit_status = "none"
    /\ TrackerFresh
    /\ warn_threshold \in FreshTokens..(FreshTokens + MaxMargin)
    /\ rotate_threshold \in {FreshTokens + MaxMargin}
    /\ gpc = "read"
    /\ processed = 0
    /\ rotate_tagged = FALSE
    /\ warn_results = <<>>

added == bytes_read + bytes_written + assistant_chars + shell_output_chars

nonTrackerVars == <<driverVars, rpc, mode, timeout, exit_status, elapsed, child, rsignal, yields,
                    outcome, gpc, processed, rotate_tagged>>

\* TokenTracker.add_read
add_read ==
    /\ \E bytes_count \in 0..MaxAdd :
          /\ added + bytes_count <= MaxTotal
          /\ bytes_read' = bytes_read + bytes_count
    /\ UNCHANGED <<nonTrackerVars, bytes_written, assistant_chars, shell_output_chars,
                   warn_sent, warn_threshold, rotate_threshold, warn_results>>

\* TokenTracker.add_write
add_write ==
    /\ \E bytes_count \in 0..MaxAdd :
          /\ added + bytes_count <= MaxTotal
          /\ bytes_written' = bytes_written + bytes_count
    /\ UNCHANGED <<nonTrackerVars, bytes_read, assistant_chars, shell_output_chars,
                   warn_sent, warn_threshold, rotate_threshold, warn_results>>

\* TokenTracker.add_assistant
add_assistant ==
    /\ \E chars \in 0..MaxAdd :
          /\ added + chars <= MaxTotal
          /\ assistant_chars' = assistant_chars + chars
    /\ UNCHANGED <<nonTrackerVars, bytes_read, bytes_written, shell_output_chars,
                   warn_sent, warn_threshold, rotate_threshold, warn_results>>

\* TokenTracker.add_shell_output
add_shell_output ==
    /\ \E chars \in 0..MaxAdd :
          /\ added + chars <= MaxTotal
          /\ shell_output_chars' = shell_output_chars + chars
    /\ UNCHANGED <<nonTrackerVars, bytes_read, bytes_written, assistant_chars,
                   warn_sent, warn_threshold, rotate_threshold, warn_results>>

\* A call of TokenTracker.should_warn; the caller notes what it returned and
\* whether the estimate was at or above the warn threshold.
should_warn ==
    /\ Len(warn_results) < MaxCalls
    /\ warn_results' = Append(warn_results,
                              [returned |-> should_warn_result,
                               reached |-> calculate_tokens >= warn_threshold])
    /\ warn_sent' = (warn_sent \/ should_warn_result)
    /\ UNCHANGED <<nonTrackerVars, bytes_read, bytes_written, assistant_chars,
                   shell_output_chars, warn_threshold, rotate_threshold>>

TrackerNext ==
    \/ add_read
    \/ add_write
    \/ add_assistant
    \/ add_shell_output
    \/ should_warn

TrackerSpec == TrackerInit /\ [][TrackerNext]_vars

\* ------------------------------------------- parse_stream and process_line
\* The tags an assistant text can carry, <ralph>NAME</ralph>.
Tags == {"COMPLETE", "ROTATE", "GUTTER", "QUESTION", "VERIFY_PASS", "VERIFY_FAIL"}

TagLength(t) == Len("<ralph>") + Len(t) + Len("</ralph>")

RECURSIVE TagsLength(_)
TagsLength(T) ==
    IF T = {} THEN 0
    ELSE LET t == CHOOSE x \in T : TRUE IN TagLength(t) + TagsLength(T \ {t})

\* A text item of an assistant message: the tags in it, and the number of
\* its other characters.  Here a text has at most two tags.
TagSets == {{}} \cup {{t, u} : t \in Tags, u \in Tags}
TextItems == [tags : TagSets, chars : {0, MaxAdd}]

\* len(text)
text_length(item) == item.chars + TagsLength(item.tags)

\* process_line, assistant branch: the chain of `if "<ralph>..." in text`
\* tests on one text; there is none for the ROTATE tag.
text_signal(T) ==
    IF "COMPLETE" \in T THEN "COMPLETE"
    ELSE IF "GUTTER" \in T THEN "GUTTER"
    ELSE IF "QUESTION" \in T THEN "QUESTION"
    ELSE IF "VERIFY_PASS" \in T THEN "VERIFY_PASS"
    ELSE IF "VERIFY_FAIL" \in T THEN "VERIFY_FAIL"
    ELSE NONE

\* The events of the stream: an assistant message with one or two text
\* items; a completed read, write or shell tool call (size: the bytes or
\* characters it reports; detector: what track_write / track_failure
\* returns for it); anything else ("system").
Contents == {<<a>> : a \in TextItems} \cup {<<a, b>> : a \in TextItems, b \in TextItems}
Events ==
    [type : {"assistant"}, content : Contents, size : {0}, detector : {FALSE}]
    \cup [type : {"read"}, content : {<<>>}, size : {0, MaxAdd}, detector : {FALSE}]
    \cup [type : {"write", "shell"}, content : {<<>>}, size : {0, MaxAdd}, detector : BOOLEAN]
    \cup [type : {"system"}, content : {<<>>}, size : {0}, detector : {FALSE}]

\* process_line, assistant branch: for item in content: add_assistant(len),
\* then return at the first text with a tag it knows.  The result is the
\* characters added and the signal.
\* Mutant of scan_content: every text item is added, and the signal of the
\* first tagged one is returned at the end.
RECURSIVE scan_content_NoEarlyReturn(_, _, _)
scan_content_NoEarlyReturn(content, i, chars) ==
    IF i > Len(content) THEN <<chars, NONE>>
    ELSE LET rest == scan_content_NoEarlyReturn(content, i + 1, chars + text_length(content[i]))
             sig == text_signal(content[i].tags)
         IN <<rest[1], IF sig # NONE THEN sig ELSE rest[2]>>

RECURSIVE scan_content(_, _, _)
scan_content(content, i, chars) ==
    IF i > Len(content) THEN <<chars, NONE>>
    ELSE LET n == chars + text_length(content[i])
             sig == text_signal(content[i].tags)
         IN IF sig # NONE THEN <<n, sig>> ELSE scan_content(content, i + 1, n)

\* Mutant of process_line: a read is taken off the read counter.
process_line_ReadRefunded(e) ==
    [read |-> IF e.type = "read" THEN 0 - e.size ELSE 0,
     written |-> 0, assistant |-> 0, shell |-> 0, signal |-> NONE]

\* process_line: what the event adds to each counter, and the signal
\* returned.
process_line(e) ==
    IF e.type = "assistant"
    THEN LET r == scan_content(e.content, 1, 0)
         IN [read |-> 0, written |-> 0, assistant |-> r[1], shell |-> 0, signal |-> r[2]]
    ELSE [read |-> IF e.type = "read" THEN e.size ELSE 0,
          written |-> IF e.type = "write" THEN e.size ELSE 0,
          assistant |-> 0,
          shell |-> IF e.type = "shell" THEN e.size ELSE 0,
          signal |-> IF e.type \in {"write", "shell"} /\ e.detector THEN "GUTTER" ELSE NONE]

\* len(text) summed over the text items of a message from item i on.
RECURSIVE content_length(_, _)
content_length(content, i) ==
    IF i > Len(content) THEN 0
    ELSE text_length(content[i]) + content_length(content, i + 1)

\* The assistant text of the event has the ROTATE tag and no COMPLETE tag.
rotate_requested(e) ==
    /\ e.type = "assistant"
    /\ \E i \in 1..Len(e.content) : "ROTATE" \in e.content[i].tags
    /\ \A i \in 1..Len(e.content) : "COMPLETE" \notin e.content[i].tags

\* The generator yields sig and stays suspended at the yield `at`; the for
\* loop of the runner assigns signal = sig.
Yield(sig, at) ==
    /\ rsignal' = sig
    /\ yields' = Append(yields, sig)
    /\ rpc' = "body"
    /\ gpc' = at

\* parse_stream, `if token_tracker.should_warn(): yield "WARN"`, with tok
\* the estimate; otherwise on to the next readline().
WarnCheck(tok) ==
    IF tok >= warn_threshold /\ ~warn_sent
    THEN /\ warn_sent' = TRUE
         /\ Yield("WARN", "warn")
    ELSE /\ gpc' = "read"
         /\ UNCHANGED <<warn_sent, rpc, rsignal, yields>>

\* parse_stream, `if token_tracker.should_rotate(): yield "ROTATE"`, and
\* what follows when it does not yield.  (Both runners stop at ROTATE, so
\* the generator is never resumed after this yield.)
RotateCheck(tok) ==
    IF tok >= rotate_threshold
    THEN /\ Yield("ROTATE", "rotate")
         /\ UNCHANGED warn_sent
    ELSE WarnCheck(tok)

\* parse_stream from readline() to the next yield or the next readline():
\* a line of the child is read and parsed, process_line updates the
\* tracker and may return a signal, which is yielded; otherwise the
\* callback runs and the thresholds are checked.
GenNext ==
    /\ rpc = "readline"
    /\ gpc \in {"read", "warn"}
    /\ child \in {"running", "exited"}
    /\ processed < MaxEvents
    /\ \E e \in Events :
          LET p == process_line(e)
              tok == tokens_of(bytes_read + p.read, bytes_written + p.written,
                               assistant_chars + p.assistant,
                               shell_output_chars + p.shell)
          IN /\ bytes_read' = bytes_read + p.read
             /\ bytes_written' = bytes_written + p.written
             /\ assistant_chars' = assistant_chars + p.assistant
             /\ shell_output_chars' = shell_output_chars + p.shell
             /\ rotate_tagged' = (rotate_tagged \/ rotate_requested(e))
             /\ IF p.signal # NONE
                THEN Yield(p.signal, "signal") /\ UNCHANGED warn_sent
                ELSE RotateCheck(tok)
    /\ processed' = processed + 1
    /\ UNCHANGED <<driverVars, mode, timeout, exit_status, elapsed, child, outcome,
                   warn_threshold, rotate_threshold, warn_results>>

\* Mutant of GenResume: after `yield signal` the generator goes straight to
\* the next readline().
GenResume_SkipsChecks ==
    /\ rpc = "readline"
    /\ gpc = "signal"
    /\ gpc' = "read"
    /\ UNCHANGED <<driverVars, mode, timeout, exit_status, elapsed, child, outcome, rpc, rsignal,
                   yields, trackerVars, processed, rotate_tagged, warn_results>>

\* parse_stream resumed after `yield signal` (the runner did not stop at the
\* signal): the callback, then the threshold checks.
GenResume ==
    /\ rpc = "readline"
    /\ gpc = "signal"
    /\ RotateCheck(calculate_tokens)
    /\ UNCHANGED <<driverVars, mode, timeout, exit_status, elapsed, child, outcome,
                   bytes_read, bytes_written, assistant_chars, shell_output_chars,
                   warn_threshold, rotate_threshold, processed, rotate_tagged,
                   warn_results>>

\* A callback raises: on_task_file_update inside process_line (a write of
\* RALPH_TASK.md, after add_write), or on_token_update after process_line
\* returned no signal or after the generator is resumed from `yield signal`.
\* Neither call is inside a try: the error ends the generator and reaches
\* the except clause of the runner, as in StreamRaises.
CallbackRaises ==
    /\ rpc = "readline"
    /\ child \in {"running", "exited"}
    /\ \/ /\ gpc \in {"read", "warn"}
          /\ processed < MaxEvents
          /\ \E e \in Events :
                LET p == process_line(e)
                IN /\ p.signal = NONE \/ e.type = "write"
                   /\ bytes_read' = bytes_read + p.read
                   /\ bytes_written' = bytes_written + p.written
                   /\ assistant_chars' = assistant_chars + p.assistant
                   /\ shell_output_chars' = shell_output_chars + p.shell
                   /\ rotate_tagged' = (rotate_tagged \/ rotate_requested(e))
          /\ processed' = processed + 1
       \/ /\ gpc = "signal"
          /\ UNCHANGED <<bytes_read, bytes_written, assistant_chars, shell_output_chars,
                         rotate_tagged, processed>>
    /\ gpc' = "callback_raised"
    /\ child' = IF child = "running" THEN "terminated" ELSE child
    /\ IF mode = "iteration"
       THEN /\ outcome' = "raised"
            /\ rpc' = "done"
            /\ UNCHANGED rsignal
       ELSE /\ rsignal' = "VERIFY_FAIL"
            /\ rpc' = "wait"
            /\ UNCHANGED outcome
    /\ UNCHANGED <<driverVars, mode, timeout, exit_status, elapsed, yields, warn_sent,
                   warn_threshold, rotate_threshold, warn_results>>

\* One run with thresholds near the estimate of a new tracker (one token
\* above it, and MaxStreamMargin tokens above it).
StreamThresholds == {FreshTokens + 1, FreshTokens + MaxStreamMargin}

StreamInit ==
    /\ DriverFrozen
    /\ rpc = "spawn"
    /\ mode \in {"iteration", "verification"}
    /\ timeout = MaxTimeout
    /\ elapsed = 0
    /\ child = "none"
    /\ rsignal = NONE
    /\ yields = <<>>
    /\ outcome = "none"
    /\ exit_status = "none"
    /\ TrackerFresh
    /\ warn_threshold \in StreamThresholds
    /\ rotate_threshold \in StreamThresholds
    /\ gpc = "read"
    /\ processed = 0
    /\ rotate_tagged = FALSE
    /\ warn_results = <<>>

StreamNext ==
    \/ SpawnOk
    \/ SpawnRaises
    \/ Tick
    \/ ChildBlocks
    \/ ChildExits
    \/ GenNext
    \/ GenResume
    \/ CallbackRaises
    \/ ReadEof
    \/ StreamRaises
    \/ LoopBody
    \/ WaitAndReturn

StreamSpec == StreamInit /\ [][StreamNext]_vars

\* ------------------------------------------------ process_line on its own
\* One parsed line and a new tracker.
ParseInit ==
    /\ LoopFrozen
    /\ nprov = 1
    /\ current_index = 0
    /\ RunnerIdle
    /\ GutterIdle
    /\ RingIdle
    /\ DetectIdle
    /\ ArchiveIdle
    /\ CompressIdle
    /\ event \in Events
    /\ line_signal = "unset"

\* One call process_line(workspace, data, token_tracker, ...).
ProcessLine ==
    /\ line_signal = "unset"
    /\ LET p == process_line(event)
       IN /\ bytes_read' = bytes_read + p.read
          /\ bytes_written' = bytes_written + p.written
          /\ assistant_chars' = assistant_chars + p.assistant
          /\ shell_output_chars' = shell_output_chars + p.shell
          /\ line_signal' = p.signal
    /\ UNCHANGED <<loopVars, rpc, mode, timeout, exit_status, elapsed, child, rsignal, yields,
                   outcome, warn_sent, warn_threshold, rotate_threshold, gpc, processed,
                   rotate_tagged, warn_results, gutterVars, visited, rotations, text,
                   detected, event, archiveVars, compressVars>>

ParseNext == ProcessLine

ParseSpec == ParseInit /\ [][ParseNext]_vars

\* ---------------------------------------------- GutterDetector on its own
\* The clock between two calls: it stands still, or a full window passes,
\* or a second more than that.
ClockSteps == {WRITE_WINDOW, WRITE_WINDOW + 1}

\* The value a call returned, as gutter_result keeps it.
Returned(b) == IF b THEN "true" ELSE "false"

Sum(f) == f["npm test"] + f["npm build"]
gutter_calls == Sum(failed_calls) + Sum(ok_calls) + Len(write_calls)

nonGutterVars == <<loopVars, callVars, visited, rotations, text, detected, event, line_signal,
                   archiveVars, compressVars>>

GutterInit ==
    /\ LoopFrozen
    /\ nprov = 1
    /\ current_index = 0
    /\ RunnerIdle
    /\ GutterIdle
    /\ RingIdle
    /\ DetectIdle
    /\ ParseIdle
    /\ ArchiveIdle
    /\ CompressIdle

\* Mutant of track_failure: a success clears the command's counter.
track_failure_ResetsOnSuccess(command, exit_code) ==
    /\ gutter_calls < MaxGutterCalls
    /\ IF exit_code # 0
       THEN /\ failures' = [failures EXCEPT ![command] = @ + 1]
            /\ gutter_result' = Returned(failures'[command] >= FAILURE_LIMIT)
            /\ failed_calls' = [failed_calls EXCEPT ![command] = @ + 1]
            /\ UNCHANGED ok_calls
       ELSE /\ failures' = [failures EXCEPT ![command] = 0]
            /\ gutter_result' = Returned(FALSE)
            /\ ok_calls' = [ok_calls EXCEPT ![command] = @ + 1]
            /\ UNCHANGED failed_calls
    /\ UNCHANGED <<nonGutterVars, writes, now, write_calls>>

\* GutterDetector.track_failure
track_failure(command, exit_code) ==
    /\ gutter_calls < MaxGutterCalls
    /\ IF exit_code # 0
       THEN /\ failures' = [failures EXCEPT ![command] = @ + 1]
            /\ gutter_result' = Returned(failures'[command] >= FAILURE_LIMIT)
            /\ failed_calls' = [failed_calls EXCEPT ![command] = @ + 1]
            /\ UNCHANGED ok_calls
       ELSE /\ gutter_result' = Returned(FALSE)
            /\ ok_calls' = [ok_calls EXCEPT ![command] = @ + 1]
            /\ UNCHANGED <<failures, failed_calls>>
    /\ UNCHANGED <<nonGutterVars, writes, now, write_calls>>

\* Mutant of track_write: old entries are never removed.
track_write_NoPrune(filepath) ==
    /\ gutter_calls < MaxGutterCalls
    /\ LET appended == Append(writes, <<now, filepath>>)
           count == Cardinality({i \in DOMAIN appended : appended[i][2] = filepath})
       IN /\ writes' = appended
          /\ gutter_result' = Returned(count >= WRITE_LIMIT)
    /\ write_calls' = Append(write_calls, <<now, filepath>>)
    /\ UNCHANGED <<nonGutterVars, failures, now, failed_calls, ok_calls>>

\* Mutant of track_write: an entry exactly one window old is dropped too.
track_write_StrictCutoff(filepath) ==
    /\ gutter_calls < MaxGutterCalls
    /\ LET appended == Append(writes, <<now, filepath>>)
           cutoff == now - WRITE_WINDOW
           kept == SelectSeq(appended, LAMBDA w : w[1] > cutoff)
           count == Cardinality({i \in DOMAIN kept : kept[i][2] = filepath})
       IN /\ writes' = kept
          /\ gutter_result' = Returned(count >= WRITE_LIMIT)
    /\ write_calls' = Append(write_calls, <<now, filepath>>)
    /\ UNCHANGED <<nonGutterVars, failures, now, failed_calls, ok_calls>>

\* GutterDetector.track_write
track_write(filepath) ==
    /\ gutter_calls < MaxGutterCalls
    /\ LET appended == Append(writes, <<now, filepath>>)
           cutoff == now - WRITE_WINDOW
           kept == SelectSeq(appended, LAMBDA w : w[1] >= cutoff)
           count == Cardinality({i \in DOMAIN kept : kept[i][2] = filepath})
       IN /\ writes' = kept
          /\ gutter_result' = Returned(count >= WRITE_LIMIT)
    /\ write_calls' = Append(write_calls, <<now, filepath>>)
    /\ UNCHANGED <<nonGutterVars, failures, now, failed_calls, ok_calls>>

\* time.time() moves on between two calls.
ClockAdvances ==
    /\ \E d \in ClockSteps :
          /\ now + d <= MaxNow
          /\ now' = now + d
    /\ UNCHANGED <<nonGutterVars, failures, writes, failed_calls, ok_calls, write_calls,
                   gutter_result>>

GutterNext ==
    \/ \E command \in Commands, exit_code \in {0, 1} : track_failure(command, exit_code)
    \/ \E filepath \in Paths : track_write(filepath)
    \/ ClockAdvances

GutterSpec == GutterInit /\ [][GutterNext]_vars

\* -------------------------------------------- ProviderRotation on its own
\* A ring of any size from one member up, the cursor anywhere in it (the
\* driver may have moved it before).
RingInit ==
    /\ LoopFrozen
    /\ nprov \in 1..MaxRing
    /\ current_index \in 0..(nprov - 1)
    /\ RunnerIdle
    /\ GutterIdle
    /\ RingIdle
    /\ DetectIdle
    /\ ParseIdle
    /\ ArchiveIdle
    /\ CompressIdle

\* One call of ProviderRotation.rotate().
Rotate ==
    /\ rotations < MaxRing
    /\ current_index' = rotate(current_index, nprov)
    /\ visited' = visited \cup {current_index'}
    /\ rotations' = rotations + 1
    /\ UNCHANGED <<pc, nprov, counterVars, paramVars, signal, verify_signal, taskVars,
                   qaVars, exc, histVars, user_answer, fileVars, exit_commit,
                   callVars, gutterVars, text, detected, event, line_signal,
                   archiveVars, compressVars>>

RingNext == Rotate

RingSpec == RingInit /\ [][RingNext]_vars

\* ------------------------------------------------- detect_signal on its own
\* Mutant of SignalOrder: ROTATE is looked for before COMPLETE.
SignalOrder_RotateFirst ==
    <<"ROTATE", "COMPLETE", "GUTTER", "QUESTION", "VERIFY_PASS", "VERIFY_FAIL", "WARN", "DONE">>

\* signals.Signal: the members in definition order, which is the order
\* `for signal in Signal` goes through them.
SignalOrder ==
    <<"COMPLETE", "ROTATE", "GUTTER", "QUESTION", "VERIFY_PASS", "VERIFY_FAIL", "WARN", "DONE">>

\* A chunk of text is a sequence of pieces: the piece S of SignalOrder is
\* the tag <ralph>S</ralph>, the piece "x" is text that holds no tag.
Pieces == {SignalOrder[i] : i \in DOMAIN SignalOrder} \cup {"x"}
Texts == UNION {[1..n -> Pieces] : n \in 0..MaxTextLen}

\* `make_tag(signal) in text`
tag_in(s, t) == \E i \in DOMAIN t : t[i] = s

\* detect_signal: the first member of Signal, from member i on, whose tag
\* is in the text; "None" when the loop ends.
RECURSIVE detect_from(_, _)
detect_from(i, t) ==
    IF i > Len(SignalOrder) THEN "None"
    ELSE IF tag_in(SignalOrder[i], t) THEN SignalOrder[i]
    ELSE detect_from(i + 1, t)

detect_signal(t) == detect_from(1, t)

DetectInit ==
    /\ LoopFrozen
    /\ nprov = 1
    /\ current_index = 0
    /\ RunnerIdle
    /\ GutterIdle
    /\ RingIdle
    /\ ParseIdle
    /\ ArchiveIdle
    /\ CompressIdle
    /\ text \in Texts
    /\ detected = "unset"

\* One call detect_signal(text).
Detect ==
    /\ detected = "unset"
    /\ detected' = detect_signal(text)
    /\ UNCHANGED <<loopVars, callVars, gutterVars, visited, rotations, text, event, line_signal,
                   archiveVars, compressVars>>

DetectNext == Detect

DetectSpec == DetectInit /\ [][DetectNext]_vars

\* ------------------------------------- archive.archive_completed_task
\* A file's content is the sequence of the pieces written to it.

\* state.py: the headers init_ralph_dir seeds.
DEFAULT_CONTENT(f) ==
    CASE f = "progress.md" ->
           <<"# Progress Log\n\n> Updated by the agent after significant work.\n\n---\n\n## Session History\n\n">>
      [] f = "errors.log" ->
           <<"# Error Log\n\n> Failures detected by parser. Use to update guardrails.\n\n">>
      [] f = "activity.log" ->
           <<"# Activity Log\n\n> Real-time tool call logging from parser.\n\n">>

initial_content_Blank(f) == <<"">>

\* archive.py: the contents _archive_state_files resets each file to.
initial_content(f) ==
    CASE f = "progress.md" ->
           <<"# Progress Log\n\n> Updated by the agent after significant work.\n\n---\n\n## Session History\n\n">>
      [] f = "activity.log" ->
           <<"# Activity Log\n\n> Real-time tool call logging from parser.\n\n">>
      [] f = "errors.log" ->
           <<"# Error Log\n\n> Failures detected by parser. Use to update guardrails.\n\n">>

\* The part of a state file's name before its last dot.
base_name(f) ==
    CASE f = "progress.md" -> "progress"
      [] f = "activity.log" -> "activity"
      [] f = "errors.log" -> "errors"

Seeded(f) == [exists |-> TRUE, content |-> DEFAULT_CONTENT(f)]
Absent == [exists |-> FALSE, content |-> <<>>]

\* Writing completed/<base>_<stamp> replaces a file of that name.
write_archive(dir, base, stamp, content) ==
    {a \in dir : ~(a.base = base /\ a.stamp = stamp)}
        \cup {[base |-> base, stamp |-> stamp, content |-> content]}

RECURSIVE archive_files(_, _, _, _)
archive_files(names, files, dir, stamp) ==
    IF names = {} THEN dir
    ELSE LET f == CHOOSE n \in names : TRUE
             rest == archive_files(names \ {f}, files, dir, stamp)
         IN IF files[f].exists
            THEN write_archive(rest, base_name(f), stamp, files[f].content)
            ELSE rest

\* The state files after _archive_state_files: each one that exists is
\* reset, each one that does not exist is left out.
reset_files(files) ==
    [f \in StateFileNames |->
        IF files[f].exists THEN [exists |-> TRUE, content |-> initial_content(f)]
        ELSE files[f]]

\* The clock of the archive names does not go backwards.
Stamps(dir) == {t \in 1..MaxStamp : \A a \in dir : a.stamp <= t}

\* The workspace at a point where a task is being worked on: the state
\* directory as init_ralph_dir leaves it, or not yet initialised.
ArchiveInit ==
    /\ LoopFrozen
    /\ nprov = 1
    /\ current_index = 0
    /\ RunnerIdle
    /\ GutterIdle
    /\ RingIdle
    /\ DetectIdle
    /\ ParseIdle
    /\ CompressIdle
    /\ task_file = TRUE
    /\ state_files \in [StateFileNames -> {Absent}]
                         \cup {[f \in StateFileNames |-> Seeded(f)]}
                         \cup {[f \in StateFileNames |->
                                   IF f = g THEN Absent ELSE Seeded(f)] : g \in StateFileNames}
    /\ completed_dir = {}
    /\ archive_result = "unset"
    /\ archive_calls = 0

archiveFrame == <<loopVars, callVars, gutterVars, visited, rotations, text, detected, event,
                  line_signal, compressVars>>

\* One call archive_completed_task(workspace).
ArchiveCompletedTask ==
    /\ archive_calls < MaxArchiveCalls
    /\ archive_calls' = archive_calls + 1
    /\ IF ~task_file
       THEN /\ archive_result' = "none"
            /\ UNCHANGED <<task_file, state_files, completed_dir>>
       ELSE \E stamp \in Stamps(completed_dir) :
            /\ task_file' = FALSE
            /\ completed_dir' =
                   archive_files(StateFileNames, state_files,
                                 write_archive(completed_dir, "RALPH_TASK", stamp, <<"task">>),
                                 stamp)
            /\ state_files' = reset_files(state_files)
            /\ archive_result' = "archived"
    /\ UNCHANGED archiveFrame

\* log_progress, log_activity or log_error while a task is worked on: the
\* file is opened for appending, which creates it when it is missing.
LogAppend ==
    /\ task_file
    /\ \E f \in StateFileNames :
        /\ Len(state_files[f].content) <= MaxLogEntries
        /\ state_files' = [state_files EXCEPT
               ![f] = [exists |-> TRUE, content |-> Append(@.content, "entry")]]
    /\ archive_result' = "unset"
    /\ UNCHANGED <<task_file, completed_dir, archive_calls>>
    /\ UNCHANGED archiveFrame

\* The next task file is written.
TaskCreated ==
    /\ ~task_file
    /\ task_file' = TRUE
    /\ archive_result' = "unset"
    /\ UNCHANGED <<state_files, completed_dir, archive_calls>>
    /\ UNCHANGED archiveFrame

ArchiveNext == ArchiveCompletedTask \/ LogAppend \/ TaskCreated

ArchiveSpec == ArchiveInit /\ [][ArchiveNext]_vars

\* --------------------------------------- state.compress_progress_file
\* A line of progress.md is a timestamped entry heading ("### YYYY-MM-DD
\* HH:MM:SS"), a "## Session ..." heading, or any other line; "note" is a
\* line of the compression note, which is neither kind of heading.
LineKinds == {"entry", "session", "text"}

BYTES_PER_LINE == 100
CHARS_PER_TOKEN == 4
max_tokens == 20000
FALLBACK_HEADER == 10

RECURSIVE FilesUpTo(_)
FilesUpTo(n) ==
    IF n = 0 THEN {<<>>}
    ELSE FilesUpTo(n - 1) \cup
         {Append(l, k) : l \in {m \in FilesUpTo(n - 1) : Len(m) = n - 1}, k \in LineKinds}

Min(a, b) == IF a < b THEN a ELSE b

\* The index (from 0) of the first line of kind k, or -1.
first_index(lines, k) ==
    IF \E i \in 1..Len(lines) : lines[i] = k
    THEN (CHOOSE i \in 1..Len(lines) :
              lines[i] = k /\ \A j \in 1..(i - 1) : lines[j] # k) - 1
    ELSE -1

compression_needed(total_lines, max_lines) ==
    ~(total_lines <= max_lines
        /\ (total_lines * BYTES_PER_LINE) \div CHARS_PER_TOKEN <= max_tokens)

\* header_end as the three searches leave it; 0 means "not found" to the
\* second and the third.
header_end(lines) ==
    LET h1 == IF first_index(lines, "entry") >= 0 THEN first_index(lines, "entry") ELSE 0
        h2 == IF h1 = 0 /\ first_index(lines, "session") >= 0
              THEN first_index(lines, "session") + 1 ELSE h1
    IN IF h2 = 0 THEN Min(FALLBACK_HEADER, Len(lines)) ELSE h2

\* lines[-keep:], or lines[header_end:] when the header reaches into it or
\* the file is no longer than keep.
recent_lines(lines, h, keep) ==
    LET n == Len(lines)
    IN IF n > keep
       THEN IF h > n - keep THEN SubSeq(lines, h + 1, n)
            ELSE IF keep = 0 THEN lines ELSE SubSeq(lines, n - keep + 1, n)
       ELSE SubSeq(lines, h + 1, n)

\* The three strings of the note are four lines of the file: the first
\* one starts with a line break.
compression_note == <<"note", "note", "note", "note">>

compressed_lines(lines, keep) ==
    SubSeq(lines, 1, header_end(lines)) \o compression_note
        \o recent_lines(lines, header_end(lines), keep)

CompressInit ==
    /\ LoopFrozen
    /\ nprov = 1
    /\ current_index = 0
    /\ RunnerIdle
    /\ GutterIdle
    /\ RingIdle
    /\ DetectIdle
    /\ ParseIdle
    /\ ArchiveIdle
    /\ progress_lines \in FilesUpTo(MaxFileLines)
    /\ compress_args \in [max_lines : 0..MaxLinesArg, keep_recent_lines : 0..MaxKeep]
    /\ compress_result = "unset"

\* One call compress_progress_file(workspace, max_lines, keep_recent_lines).
CompressProgressFile ==
    /\ compress_result = "unset"
    /\ \/ \* the file is missing or cannot be read
          /\ compress_result' = "false"
          /\ UNCHANGED progress_lines
       \/ /\ ~compression_needed(Len(progress_lines), compress_args.max_lines)
          /\ compress_result' = "false"
          /\ UNCHANGED progress_lines
       \/ /\ compression_needed(Len(progress_lines), compress_args.max_lines)
          /\ \/ /\ progress_lines' =
                       compressed_lines(progress_lines, compress_args.keep_recent_lines)
                /\ compress_result' = "true"
             \/ \* the write raises, before or after the file was truncated
                /\ progress_lines' \in {progress_lines, <<>>}
                /\ compress_result' = "false"
             \/ \* the file is written and log_activity raises
                /\ progress_lines' =
                       compressed_lines(progress_lines, compress_args.keep_recent_lines)
                /\ compress_result' = "false"
    /\ UNCHANGED <<loopVars, callVars, gutterVars, visited, rotations, text, detected, event,
                   line_signal, archiveVars, compress_args>>

CompressNext == CompressProgressFile

CompressSpec == CompressInit /\ [][CompressNext]_vars

\* ================================================================ claims

C2_VerifierDiffersFromImplementer ==
    (pc \in {"verify", "verify_ret"} /\ nprov >= 2) => current_index # implementer

\* C2 witness: a verification has run on a ring of three, on the provider
\* after the implementer's.
C2_Witness ==
    /\ pc = "verify_ret"
    /\ nprov = 3
    /\ implementer = 2
    /\ current_index = 0

C4_NonPassVerificationCounts ==
    [][ (pc = "verify_ret" /\ verify_signal # "VERIFY_PASS")
           => (/\ verification_failures' = verification_failures + 1
               /\ iteration' = iteration + 1
               /\ pc' = "loop")
      ]_vars

\* C4 witness: a verification that returned GUTTER has been counted.
C4_Witness ==
    /\ pc = "loop"
    /\ verify_signal = "GUTTER"
    /\ verification_failures = 1
    /\ iteration = 2

\* C5 (as stated): an iteration that returns ROTATE, whatever the criteria,
\* increments the iteration counter, leaves the ring cursor alone and starts
\* no verification.
C5_RotateWhateverCriteria ==
    [][ (pc = "iter_ret" /\ taskExists /\ signal = "ROTATE")
           => (/\ iteration' = iteration + 1
               /\ current_index' = current_index
               /\ pc' # "verify")
      ]_vars

\* C5 (amended): an iteration that returns ROTATE while check_completion
\* reports something other than COMPLETE increments the iteration counter,
\* leaves the ring cursor alone and starts no verification; when every
\* criterion is checked the driver handles the completion instead (it
\* starts a verification, or gives up when the failure budget is spent) and
\* the iteration counter is not incremented.
C5_RotateWithCriteriaRemaining ==
    [][ /\ (pc = "iter_ret" /\ taskExists /\ signal = "ROTATE" /\ ~should_verify)
           => (/\ iteration' = iteration + 1
               /\ current_index' = current_index
               /\ pc' = "sleep")
        /\ (pc = "iter_ret" /\ taskExists /\ signal = "ROTATE" /\ should_verify)
           => (/\ iteration' = iteration
               /\ pc' \in {"verify", "returned", "except"})
      ]_vars

\* C5 witness: ROTATE with a criterion unchecked has been handled.
C5_Witness ==
    /\ pc = "sleep"
    /\ signal = "ROTATE"
    /\ iteration = 2
    /\ nprov >= 2
    /\ current_index = implementer

C7_SingleProviderGutterAdvances ==
    [][ /\ (nprov = 1 /\ pc = "iter_ret" /\ signal = "GUTTER")
           => (\/ (iteration' = iteration + 1 /\ pc' = "loop")
               \/ pc' \in {"verify", "returned", "except"})
        /\ (nprov = 1 /\ pc = "verify")
           => pc' \in {"verify_ret", "except", "interrupted"}
        /\ (nprov = 1 /\ pc = "verify_ret")
           => (\/ (iteration' = iteration + 1 /\ pc' = "loop")
               \/ pc' \in {"returned", "except"})
        /\ (nprov = 1 /\ pc = "except")
           => (iteration' = iteration + 1 /\ pc' = "loop")
      ]_vars

\* C7 witness: with one provider, a GUTTER in the last iteration has moved
\* the counter past max_iterations (the next step is the max-iterations
\* exit).
C7_Witness ==
    /\ nprov = 1
    /\ pc = "loop"
    /\ signal = "GUTTER"
    /\ iteration = max_iterations + 1
    /\ max_iterations = MaxIterations

\* C8: an exception in the loop body does not end the loop: with two or
\* more providers the cursor moves by one and the iteration number is kept,
\* with one provider the iteration counter is incremented.
C8_ExceptionRotatesOrAdvances ==
    [][ pc = "except"
           => (/\ pc' = "loop"
               /\ IF nprov >= 2
                  THEN /\ current_index' = (current_index + 1) % nprov
                       /\ iteration' = iteration
                  ELSE /\ current_index' = current_index
                       /\ iteration' = iteration + 1)
      ]_vars

\* C8 witness: an exception of run_single_iteration has been handled on a
\* ring of two, the iteration number kept.
C8_Witness ==
    /\ pc = "loop"
    /\ exc = "run_single_iteration"
    /\ nprov = 2
    /\ current_index = 1
    /\ iteration = 1

\* C9 (as stated): no error of a verification run reaches the driver as an
\* exception.
C9_VerificationNeverRaises == exc # "run_verification_iteration"

\* C10 (as stated): a child that has stopped writing without exiting does
\* not keep the runner: the runner comes to its end.
C10_SilentChildIsTimedOut == (child = "silent") ~> (rpc = "done")

\* C11 (as stated): an iteration run in which an assistant text carried the
\* tag <ralph>ROTATE</ralph> and no COMPLETE tag has had ROTATE emitted and
\* returns ROTATE.
C11_RotateTagEndsIteration ==
    (mode = "iteration" /\ outcome = "returned" /\ rotate_tagged)
        => (/\ rsignal = "ROTATE"
            /\ \E i \in 1..Len(yields) : yields[i] = "ROTATE")

\* C12: an iteration that returns COMPLETE while at least one criterion is
\* unchecked starts no verification: the ring cursor and the
\* verification-failure counter are left alone, the iteration counter is
\* incremented and the driver goes back to the top of the loop.
C12_CompleteWithCriteriaRemaining ==
    [][ (pc = "iter_ret" /\ taskExists /\ signal = "COMPLETE" /\ done < total)
           => (/\ pc' = "loop"
               /\ iteration' = iteration + 1
               /\ current_index' = current_index
               /\ verification_failures' = verification_failures)
      ]_vars

\* C12 witness: COMPLETE with one of two criteria checked has been handled
\* on a ring of two; the cursor is still on the implementer.
C12_Witness ==
    /\ pc = "loop"
    /\ signal = "COMPLETE"
    /\ done = 1 /\ total = 2
    /\ nprov = 2
    /\ current_index = implementer
    /\ iteration = 2

\* C13 (as stated): when the loop has returned after a VERIFY_PASS and the
\* task file has been moved to .ralph/completed/, the progress, activity
\* and error logs have been copied there too and are back to their headers.
C13_LogsArchivedAndReset ==
    (pc = "returned" /\ verify_signal = "VERIFY_PASS" /\ "RALPH_TASK" \in completed)
        => (/\ {"progress", "activity", "errors"} \subseteq completed
            /\ logs = "header")

C15_AnswerSurvivesToNextAgent ==
    (pc = "iter" /\ user_answer \in UserAnswers)
        => answer = (IF user_answer = "text" THEN "text" ELSE "empty")

C18_PrRequiresBranchWhateverCriteria ==
    [][ (pc = "cli" /\ open_pr /\ ~branch) => pc' = "exit1" ]_vars

\* C18 (amended): `run --pr` without --branch starts no agent; it ends with
\* "--pr requires --branch" and code 1 unless every criterion of the task
\* file is checked, and then it ends with "Task already complete" and
\* code 0.
C18_PrRequiresBranchUnlessComplete ==
    [][ (pc = "cli" /\ open_pr /\ ~branch)
           => pc' = (IF check_completion(done, total) = "COMPLETE" THEN "exit0" ELSE "exit1")
      ]_vars

\* C18 witness: --pr without --branch has been refused on a task with an
\* unchecked criterion.
C18_Witness ==
    /\ pc = "exit1"
    /\ open_pr /\ ~branch
    /\ done < total

\* C19: of the should_warn calls made on one tracker, the one that returns
\* true is the first made while the estimate is at or above the warn
\* threshold, and no other: so it returns true at most once, and false on
\* every later call.
C19_WarnOnce ==
    \A i \in 1..Len(warn_results) :
        warn_results[i].returned
            <=> (/\ warn_results[i].reached
                 /\ \A j \in 1..(i - 1) : ~warn_results[j].reached)

\* C19 witness: the first call came below the threshold, the second, after
\* an add, at the threshold (true), a third after it (false).
C19_Witness ==
    /\ Len(warn_results) = 3
    /\ ~warn_results[1].returned /\ ~warn_results[1].reached
    /\ warn_results[2].returned
    /\ ~warn_results[3].returned /\ warn_results[3].reached

\* C20 (as stated): when a run has returned after an event brought the
\* estimate to or above the rotate threshold, ROTATE has been emitted.
C20_RotateEmittedAtThreshold ==
    (outcome = "returned" /\ processed > 0 /\ should_rotate)
        => \E i \in 1..Len(yields) : yields[i] = "ROTATE"

\* C20 (amended): once an event has brought the estimate to or above the
\* rotate threshold no further event is processed; ROTATE is emitted unless
\* the run ends first on what that event itself made the supervisor emit
\* (a stop-set signal, or a signal outside the stop set followed by the
\* timeout) or on an error; and when the run returns, the child has been
\* terminated and reaped and the signal returned is one of the stop set.
C20_NoEventAfterThreshold ==
    [][ /\ (processed > 0 /\ should_rotate) => processed' = processed
        /\ (outcome' = "returned" /\ processed' > 0 /\ should_rotate')
           => (/\ child' = "reaped"
               /\ rsignal' \in stop_set(mode)
               /\ \/ \E i \in 1..Len(yields') : yields'[i] = "ROTATE"
                  \/ rsignal' # "ROTATE")
      ]_vars

\* C20 witness: the first event of a run took the estimate over the far
\* threshold, ROTATE was emitted for it and the run has returned ROTATE with
\* the child reaped, a second event never read.
C20_Witness ==
    /\ rpc = "done"
    /\ outcome = "returned"
    /\ processed = 1
    /\ processed < MaxEvents
    /\ rotate_threshold = FreshTokens + MaxStreamMargin
    /\ should_rotate
    /\ yields = <<"ROTATE">>
    /\ rsignal = "ROTATE"
    /\ child = "reaped"

\* C21 (GutterSpec): a track_failure call with a non-zero exit code returns
\* true exactly when, counting this call, the command has failed at least
\* three times on this detector; the failures of other commands and the
\* successes in between change nothing.
C21_ThirdFailureOfCommand ==
    [][\A c \in Commands :
          failed_calls'[c] = failed_calls[c] + 1
          => (gutter_result' = "true" <=> failed_calls'[c] >= 3)]_vars

C21_Witness ==
    /\ gutter_result = "true"
    /\ write_calls = <<>>
    /\ failed_calls["npm test"] = 3
    /\ ok_calls["npm test"] >= 1
    /\ failed_calls["npm build"] >= 1

\* C22 (GutterSpec): a track_write call returns true exactly when at least
\* five of the writes recorded for the same path, this one included, have a
\* timestamp no older than 600 seconds before the time of the call.
C22_FiveWritesInWindow ==
    [][Len(write_calls') = Len(write_calls) + 1
       => LET call == write_calls'[Len(write_calls')]
              recent == {i \in DOMAIN write_calls' :
                            /\ write_calls'[i][2] = call[2]
                            /\ write_calls'[i][1] >= call[1] - 600}
          IN gutter_result' = "true" <=> Cardinality(recent) >= 5]_vars

C22_Witness ==
    /\ gutter_result = "true"
    /\ Len(write_calls) = 6
    /\ write_calls[1][1] < now - WRITE_WINDOW
    /\ write_calls[1][2] = write_calls[6][2]

\* C23 (RingSpec): on a ring of n >= 1 providers and from any cursor, n
\* consecutive rotate() calls make every provider the current one at least
\* once.
C23_FullTurnVisitsAll ==
    rotations >= nprov => visited = 0..(nprov - 1)

C23_Witness ==
    /\ nprov = MaxRing
    /\ rotations = nprov
    /\ current_index = 3
    /\ visited = 0..(nprov - 1)

\* C24 (DetectSpec), as stated: detect_signal returns the first tag present
\* of COMPLETE, ROTATE, GUTTER, QUESTION, VERIFY_PASS, VERIFY_FAIL, whatever
\* the positions, and none for a chunk that holds none of these six tags.
C24_NoneWithoutTheSixTags ==
    detected # "unset" =>
        detected = IF tag_in("COMPLETE", text) THEN "COMPLETE"
                   ELSE IF tag_in("ROTATE", text) THEN "ROTATE"
                   ELSE IF tag_in("GUTTER", text) THEN "GUTTER"
                   ELSE IF tag_in("QUESTION", text) THEN "QUESTION"
                   ELSE IF tag_in("VERIFY_PASS", text) THEN "VERIFY_PASS"
                   ELSE IF tag_in("VERIFY_FAIL", text) THEN "VERIFY_FAIL"
                   ELSE "None"

\* C24 amended: the same order, continued by WARN and then DONE; none only
\* for a chunk that holds none of the eight tags.
C24_FirstOfEightTags ==
    detected # "unset" =>
        detected = IF tag_in("COMPLETE", text) THEN "COMPLETE"
                   ELSE IF tag_in("ROTATE", text) THEN "ROTATE"
                   ELSE IF tag_in("GUTTER", text) THEN "GUTTER"
                   ELSE IF tag_in("QUESTION", text) THEN "QUESTION"
                   ELSE IF tag_in("VERIFY_PASS", text) THEN "VERIFY_PASS"
                   ELSE IF tag_in("VERIFY_FAIL", text) THEN "VERIFY_FAIL"
                   ELSE IF tag_in("WARN", text) THEN "WARN"
                   ELSE IF tag_in("DONE", text) THEN "DONE"
                   ELSE "None"

C24_Witness ==
    /\ text = <<"DONE", "x", "WARN">>
    /\ detected = "WARN"

\* C25 (FairSpec), as stated: when every agent run finishes, run_ralph_loop
\* ends after finitely many agent runs, for every ring size, every task
\* content (no criteria included) and every sequence of agent signals.
C25_LoopTerminates == <>Terminated

\* C26 (Spec): after an iteration has returned, the driver starts a
\* verification -- or, with verification_failures at the limit, gives up and
\* archives -- exactly when the task file has at least one criterion and
\* every criterion is checked, whatever the signal; never with an unchecked
\* criterion or with no criteria.
C26_VerifyExactlyWhenComplete ==
    [][pc = "iter_ret" =>
         LET complete == taskExists /\ total > 0 /\ done = total
             gives_up == \/ pc' = "returned"
                         \/ pc' = "except" /\ exc' = "archive_completed_task"
         IN /\ (complete /\ verification_failures < max_verification_failures)
                  => pc' = "verify"
            /\ (complete /\ verification_failures >= max_verification_failures)
                  => gives_up
            /\ ~complete => pc' # "verify" /\ ~gives_up]_vars

C26_Witness ==
    /\ pc = "verify"
    /\ verification_failures = 1
    /\ total = 2
    /\ done = 2

\* C30 (ParseSpec), as stated: for an assistant event the assistant
\* counter grows by the total length of all its text items, whether or not
\* one of them carries a tag.
C30_AllTextCounted ==
    (line_signal # "unset" /\ event.type = "assistant")
        => assistant_chars = content_length(event.content, 1)

\* C30 amended: the counter grows by the length of the text items up to and
\* including the first that carries one of the tags process_line tests
\* for, and by the length of all of them when none does.
C30_CountedUpToFirstTag ==
    (line_signal # "unset" /\ event.type = "assistant")
        => LET known == {"COMPLETE", "GUTTER", "QUESTION", "VERIFY_PASS", "VERIFY_FAIL"}
               tagged == {i \in DOMAIN event.content : event.content[i].tags \cap known # {}}
               last == IF tagged = {} THEN Len(event.content)
                       ELSE CHOOSE i \in tagged : \A j \in tagged : i <= j
           IN assistant_chars = content_length(SubSeq(event.content, 1, last), 1)

C30_Witness ==
    /\ line_signal = "QUESTION"
    /\ Len(event.content) = 2
    /\ event.content[2].chars > 0
    /\ assistant_chars = text_length(event.content[1])

\* C27 (StreamSpec): a run that returns after the supervisor emitted a
\* stop-set signal returns the first such signal in emission order; a signal
\* outside the stop set does not end the run (only the timeout checked after
\* it can); once a stop-set signal has been emitted no further event is
\* processed and nothing more is emitted.
C27_FirstStopSignalReturned ==
    [][LET S == IF mode = "iteration" THEN StopSetIteration ELSE StopSetVerification
           stops(y) == {i \in DOMAIN y : y[i] \in S}
           first(y) == y[CHOOSE i \in stops(y) : \A j \in stops(y) : i <= j]
       IN /\ (outcome' = "returned" /\ stops(yields') # {}) => rsignal' = first(yields')
          /\ stops(yields) # {} => (processed' = processed /\ yields' = yields)
          /\ (rpc = "body" /\ rsignal \notin S /\ elapsed <= timeout)
                => rpc' \in {"body", "readline"}]_vars

C27_Witness ==
    /\ mode = "verification"
    /\ outcome = "returned"
    /\ yields = <<"COMPLETE", "VERIFY_PASS">>
    /\ rsignal = "VERIFY_PASS"
    /\ processed = 2

\* C28 (RunnerSpec), as stated: when the stream closes with no signal and no
\* timeout and the child's exit status is not zero the runner returns its
\* timeout signal; it returns the empty signal only for exit status zero.
C28_NonzeroExitIsTimeoutSignal ==
    outcome = "returned" =>
        /\ (yields = <<>> /\ exit_status = "nonzero") => rsignal = timeout_signal(mode)
        /\ rsignal = NONE => exit_status = "zero"

\* C29 (RunnerSpec), as stated: whenever a runner has finished, by
\* returning or by raising, its child has exited and been reaped.
C29_ChildReapedWhenRunnerEnds ==
    rpc = "done" => child \in {"none", "reaped"}

C38_SuccessChangesNothing ==
    [][\A c \in Commands :
          ok_calls'[c] = ok_calls[c] + 1
          => /\ gutter_result' = "false"
             /\ failures' = failures
             /\ writes' = writes]_vars

C38_Witness ==
    /\ gutter_result = "false"
    /\ failed_calls = [c \in Commands |-> IF c = "npm test" THEN 3 ELSE 0]
    /\ failures["npm test"] = 3
    /\ ok_calls = [c \in Commands |-> IF c = "npm test" THEN 1 ELSE 0]
    /\ write_calls = <<>>

\* C39 (GutterSpec): after a track_write call the write log holds exactly
\* the recorded writes whose timestamp is >= now - 600, now being the time
\* of the call: an entry exactly 600 seconds old is kept, an older one is
\* gone.
C39_LogHoldsTheWindow ==
    [][Len(write_calls') = Len(write_calls) + 1
       => writes' = SelectSeq(write_calls', LAMBDA w : w[1] >= now - 600)]_vars

C39_Witness ==
    /\ Len(write_calls) = 3
    /\ Len(writes) = 2
    /\ writes[1][1] = now - WRITE_WINDOW
    /\ write_calls[1][1] < now - WRITE_WINDOW
    /\ write_calls[3][1] = now

\* C32 (Spec), as stated: when archiving fails on completion the error
\* surfaces and the driver aborts: no further agent is spawned and the run
\* ends by raising.
C32_ArchiveFailureAborts ==
    exc = "archive_completed_task" => pc \in {"except", "raised"}

\* C34 (Spec): 0 <= verification_failures <= max_verification_failures in
\* every driver state; the counter never decreases; no verification run is
\* started while it equals max_verification_failures.
C34_FailuresBoundedAndMonotone ==
    /\ [](0 <= verification_failures /\ verification_failures <= max_verification_failures)
    /\ [][/\ verification_failures' >= verification_failures
          /\ (pc # "verify" /\ pc' = "verify")
               => verification_failures < max_verification_failures]_vars

C34_Witness ==
    /\ pc = "iter"
    /\ max_verification_failures = 2
    /\ verification_failures = 2
    /\ done = total
    /\ total > 0

\* C35 (Spec): the ring cursor changes only when the driver handles GUTTER,
\* handles an exception or starts a verification; ROTATE, QUESTION, COMPLETE
\* with criteria remaining and a natural exit leave it alone, and nothing
\* moves it during or after a verification that returns, so the iteration
\* after a failed verification runs on the provider that verified.
C35_CursorMovesOnlyOnGutterExceptionVerify ==
    [][/\ current_index' # current_index
            => \/ pc = "except"
               \/ pc = "iter_ret" /\ pc' = "verify"
               \/ pc = "iter_ret" /\ signal = "GUTTER"
       /\ (pc = "iter_ret" /\ pc' \notin {"verify", "except"} /\ signal # "GUTTER")
            => current_index' = current_index
       /\ pc \in {"verify", "verify_ret", "loop", "sleep"}
            => current_index' = current_index]_vars

C35_Witness ==
    /\ pc = "iter"
    /\ verification_failures = 1
    /\ iteration = 2
    /\ nprov = 2
    /\ implementer = 0
    /\ current_index = 1

\* C31 (StreamSpec), as stated: when a supervisor callback raises while an
\* event is processed the iteration is not lost: the supervisor goes on
\* with the following events, nothing being terminated, raised or put in
\* the place of the signal.
C31_CallbackErrorNotFatal ==
    [][(gpc' = "callback_raised" /\ gpc # "callback_raised")
          => /\ rpc' = "readline"
             /\ outcome' = outcome
             /\ rsignal' = rsignal
             /\ child' = child]_vars

\* C37 (StreamSpec): from one event of a run to the next the value of
\* calculate_tokens never decreases.
C37_EstimateNeverDecreases ==
    [][tokens_of(bytes_read', bytes_written', assistant_chars', shell_output_chars')
         >= tokens_of(bytes_read, bytes_written, assistant_chars, shell_output_chars)]_vars

C37_Witness ==
    /\ processed = 2
    /\ bytes_read = MaxAdd
    /\ assistant_chars > 0
    /\ calculate_tokens > FreshTokens

\* C33: once archive_completed_task has archived a task and reset the
\* logs, every log that exists holds exactly the header init_ralph_dir
\* seeds; and a call made immediately after that one changes no log and
\* adds nothing to the archive directory.
C33_SecondArchiveKeepsHeaders ==
    /\ [](archive_result = "archived" =>
            \A f \in StateFileNames :
                state_files[f].exists => state_files[f].content = DEFAULT_CONTENT(f))
    /\ [][(archive_result = "archived" /\ archive_calls' = archive_calls + 1) =>
            /\ \A f \in StateFileNames :
                   state_files[f].exists =>
                       state_files'[f] = [exists |-> TRUE, content |-> DEFAULT_CONTENT(f)]
            /\ state_files' = state_files
            /\ completed_dir' = completed_dir]_vars

\* C33 witness: the second of two immediate calls has returned, after the
\* first one archived three logs that had entries.
C33_Witness ==
    /\ archive_calls = 2
    /\ archive_result = "none"
    /\ \A f \in StateFileNames :
           /\ state_files[f] = Seeded(f)
           /\ \E a \in completed_dir : a.base = base_name(f) /\ Len(a.content) = 2
    /\ Cardinality(completed_dir) = 4

\* C40 (as stated): a call of compress_progress_file that returns True
\* leaves progress.md with strictly fewer lines than it had.
C40_CompressionShrinksFile ==
    [][(compress_result = "unset" /\ compress_result' = "true") =>
            Len(progress_lines') < Len(progress_lines)]_vars
====
